---- MODULE Spec2Model ----
(***************************************************************************)
(* The incremental sender-tally scanner of bulk-mail-deleter:               *)
(* app.get('/top-senders') of src/index.js with loadState / saveState.      *)
(*                                                                         *)
(* One invocation is an async function.  Between two awaits its code runs   *)
(* to completion on the single JavaScript thread, so every action below is  *)
(* one such run: from the arrival of a response (or of the request) to the  *)
(* next await or to the HTTP response.                                      *)
(***************************************************************************)
EXTENDS Integers, Sequences, FiniteSets, TLC

\* ---------------------------------------------------------------- bounds
\* Message ids of the mailbox are 1..MaxIds.
MaxIds == 5
\* A mailbox has at most MaxPages pages.
MaxPages == 3
\* Invocation slots (HTTP requests that may be in flight together).
NProcs == 2
\* listed[p] counts an invocation's listing calls exactly up to MaxListed.
MaxListed == 4

\* const maxBatch = 1000 (index.js:143) and maxResults: 500 (index.js:148),
\* the most ids one listing returns, are scaled down to sizes that can be
\* enumerated; the code's ratio maxBatch = 2 * maxResults is kept.
maxBatch == 4
maxResults == 2

\* ------------------------------------------------------ program constants
\* .slice(0, 5) (index.js:189)
TopN == 5

Ids == 1 .. MaxIds
Procs == 1 .. NProcs
\* A From header value, or NoFrom when headers.find(...) is undefined.
\* "7" stands for the header values that are canonical array indices: an
\* object lists such keys first, in ascending numeric order, whenever they
\* were inserted (Object.entries, index.js:187).
Senders == {"a", "b", "7"}
IndexKeys == {"7"}
KeyNumber(s) == IF s = "7" THEN 7 ELSE 0
NoFrom == "-"
\* nextPageToken: null is 0; `nextPageToken || undefined` (index.js:149)
\* makes null the start of the mailbox, token t > 0 lists page t + 1.
Null == 0

VARIABLES
  mailbox,      \* the pages the adapter lists: mailbox[t + 1] answers token t
  hdr,          \* hdr[id]: the From header of message id, or NoFrom
  disk,         \* DATA_FILE (fetchedEmails.json)
  pc,           \* pc[p]: "idle" | "list" (awaiting messages.list) | "gets" (awaiting Promise.all)
  mem,          \* mem[p]: the invocation's messageIds, senderCounts, nextPageToken
  fetched,      \* fetched[p]
  reqToken,     \* the pageToken of the invocation's latest messages.list call
  newMessages,  \* the ids of newMessages of the page in flight
  pending,      \* ids whose messages.get has not settled
  listed,       \* number of messages.list calls the invocation has made
  loaded,       \* what loadState returned to the invocation
  resp          \* the HTTP response of the invocation's latest run

vars == <<mailbox, hdr, disk, pc, mem, fetched, reqToken, newMessages,
          pending, listed, loaded, resp>>

\* ------------------------------------------------------------- helpers
RECURSIVE SumTo(_, _)
SumTo(f, n) == IF n = 0 THEN 0 ELSE f[n] + SumTo(f, n - 1)

Range(s) == {s[i] : i \in 1 .. Len(s)}

\* Mutant: no filter, every listed message is taken as new.
FilterNone(messages, messageIds) == messages

\* Mutant: messageIds.indexOf(msg.id) > 0 as the test, which misses the
\* first processed id.
FilterNewIndexOf(messages, messageIds) ==
  SelectSeq(messages, LAMBDA id : id \notin {messageIds[i] : i \in 2 .. Len(messageIds)})

\* messages.filter(msg => !messageIds.includes(msg.id))
FilterNew(messages, messageIds) ==
  SelectSeq(messages, LAMBDA id : id \notin Range(messageIds))

\* senderCounts is a JavaScript object: a sequence of [sender, count] in
\* property (insertion) order.
HasSender(sc, s) == \E i \in 1 .. Len(sc) : sc[i].sender = s
IndexOfSender(sc, s) == CHOOSE i \in 1 .. Len(sc) : sc[i].sender = s
CountOf(sc, s) == IF HasSender(sc, s) THEN sc[IndexOfSender(sc, s)].count ELSE 0

\* Mutant: senderCounts[from] = 1, the earlier count is dropped.
IncrReset(sc, s) ==
  IF HasSender(sc, s)
  THEN [sc EXCEPT ![IndexOfSender(sc, s)].count = 1]
  ELSE Append(sc, [sender |-> s, count |-> 1])

\* A new property of the object: an index key goes after the smaller index
\* keys and before every other key, any other key goes last.
AddKey(sc, e) ==
  IF e.sender \in IndexKeys
  THEN LET before == SelectSeq(sc, LAMBDA x : x.sender \in IndexKeys
                                             /\ KeyNumber(x.sender) < KeyNumber(e.sender))
           after == SelectSeq(sc, LAMBDA x : ~(x.sender \in IndexKeys
                                              /\ KeyNumber(x.sender) < KeyNumber(e.sender)))
       IN  before \o <<e>> \o after
  ELSE Append(sc, e)

\* senderCounts[from] = (senderCounts[from] || 0) + 1
Incr(sc, s) ==
  IF HasSender(sc, s)
  THEN [sc EXCEPT ![IndexOfSender(sc, s)].count = @ + 1]
  ELSE AddKey(sc, [sender |-> s, count |-> 1])

TotalCount(sc) == SumTo([i \in 1 .. Len(sc) |-> sc[i].count], Len(sc))

\* Array.prototype.sort((a, b) => b[1] - a[1]): stable, count descending.
RECURSIVE InsertSorted(_, _)
InsertSorted(sorted, e) ==
  IF sorted = <<>> THEN <<e>>
  ELSE IF Head(sorted).count >= e.count
       THEN <<Head(sorted)>> \o InsertSorted(Tail(sorted), e)
       ELSE <<e>> \o sorted

RECURSIVE SortByCount(_)
SortByCount(sc) ==
  IF sc = <<>> THEN <<>>
  ELSE InsertSorted(SortByCount(SubSeq(sc, 1, Len(sc) - 1)), sc[Len(sc)])

sortedSenders(sc) ==
  LET s == SortByCount(sc)
  IN  SubSeq(s, 1, IF Len(s) < TopN THEN Len(s) ELSE TopN)

\* ------------------------------------------------------------ the mailbox
\* A page lists `fresh` ids never listed before, after (overlap) the last id
\* of the pages before it, as when mail arrives while a scan is paused.
PageShapes ==
  {sh \in [fresh : 0 .. maxResults, overlap : BOOLEAN] :
     sh.fresh + (IF sh.overlap THEN 1 ELSE 0) <= maxResults}

FreshBefore(lay, k) == SumTo([i \in 1 .. Len(lay) |-> lay[i].fresh], k - 1)

Layouts ==
  {lay \in UNION {[1 .. n -> PageShapes] : n \in 1 .. MaxPages} :
     /\ FreshBefore(lay, Len(lay) + 1) <= MaxIds
     /\ \A k \in 1 .. Len(lay) : lay[k].overlap => FreshBefore(lay, k) > 0}

PageMessages(lay, k) ==
  (IF lay[k].overlap THEN <<FreshBefore(lay, k)>> ELSE <<>>)
    \o [i \in 1 .. lay[k].fresh |-> FreshBefore(lay, k) + i]

\* The last page answers nextPageToken null, or (last = its own token) the
\* adapter never advances past it.
MailboxOf(lay, last) ==
  [k \in 1 .. Len(lay) |->
     [messages |-> PageMessages(lay, k),
      nextPageToken |-> IF k < Len(lay) THEN k ELSE last]]

Mailboxes ==
  {MailboxOf(lay, last) : lay \in Layouts, last \in {Null}} \cup
  {MailboxOf(lay, Len(lay) - 1) : lay \in Layouts}

HeaderPattern == <<"a", "b", NoFrom>>
\* A mailbox in which a sender whose header value is an array index follows
\* another sender, and one in which neighbouring messages share a sender.
IndexPattern == <<NoFrom, "a", "7">>
HeaderMaps ==
  {[id \in Ids |-> HeaderPattern[((id + k) % 3) + 1]] : k \in 0 .. 2} \cup
  {[id \in Ids |-> IndexPattern[(id % 3) + 1]],
   [id \in Ids |-> IF id % 3 = 0 THEN "b" ELSE "a"]}

\* ------------------------------------------------------------- the state
\* loadState's default (index.js:31)
EmptyState == [messageIds |-> <<>>, senderCounts |-> <<>>, nextPageToken |-> Null]

NoFile == [kind |-> "absent", state |-> EmptyState]
Corrupt == [kind |-> "corrupt", state |-> EmptyState]

NoResp ==
  [kind |-> "none", cause |-> "", status |-> "", fetched |-> 0,
   totalProcessed |-> 0, topSenders |-> <<>>, done |-> FALSE]

\* res.status(500).send('Failed to get top senders') (index.js:199-202)
ErrorResp(cause) == [NoResp EXCEPT !.kind = "error", !.cause = cause]

\* Mutant: done is taken from the batch cap, not from the cursor.
OkRespDoneByCap(st, f) ==
  [kind |-> "ok", cause |-> "", status |-> "partial", fetched |-> f,
   totalProcessed |-> Len(st.messageIds),
   topSenders |-> sortedSenders(st.senderCounts),
   done |-> (f < maxBatch)]

\* res.json({...}) (index.js:192-198)
OkResp(st, f) ==
  [kind |-> "ok", cause |-> "", status |-> "partial", fetched |-> f,
   totalProcessed |-> Len(st.messageIds),
   topSenders |-> sortedSenders(st.senderCounts),
   done |-> (st.nextPageToken = Null)]

Init ==
  /\ mailbox \in Mailboxes
  /\ hdr \in HeaderMaps
  /\ disk \in {NoFile, Corrupt}
  /\ pc = [p \in Procs |-> "idle"]
  /\ mem = [p \in Procs |-> EmptyState]
  /\ fetched = [p \in Procs |-> 0]
  /\ reqToken = [p \in Procs |-> Null]
  /\ newMessages = [p \in Procs |-> <<>>]
  /\ pending = [p \in Procs |-> {}]
  /\ listed = [p \in Procs |-> 0]
  /\ loaded = [p \in Procs |-> EmptyState]
  /\ resp = [p \in Procs |-> NoResp]

\* ---------------------------------------------------------- persistence
\* saveState (index.js:35-37): the whole record replaces the file.
saveState(state) == [kind |-> "ok", state |-> state]

\* Mutant: the file is ignored and every invocation starts afresh.
loadStateFresh == EmptyState

\* loadState (index.js:27-32); a file that does not parse makes JSON.parse
\* throw, which Start handles.
loadState == IF disk.kind = "ok" THEN disk.state ELSE EmptyState

\* ------------------------------------------------- the loop's two exits
\* The count of listing calls after one more call: exact up to MaxListed,
\* beyond it only MaxListed and MaxListed + 1 in turn, so that a further call
\* still is a step of the invocation.
NextListed(n) ==
  IF n < MaxListed THEN n + 1
  ELSE IF n = MaxListed THEN MaxListed + 1 ELSE MaxListed

\* messages.list is called (index.js:146-150) and the invocation awaits it.
CallList(p, st, f, n) ==
  /\ pc' = [pc EXCEPT ![p] = "list"]
  /\ mem' = [mem EXCEPT ![p] = st]
  /\ fetched' = [fetched EXCEPT ![p] = f]
  /\ reqToken' = [reqToken EXCEPT ![p] = st.nextPageToken]
  /\ listed' = [listed EXCEPT ![p] = NextListed(n)]
  /\ newMessages' = [newMessages EXCEPT ![p] = <<>>]
  /\ pending' = [pending EXCEPT ![p] = {}]
  /\ resp' = [resp EXCEPT ![p] = NoResp]

\* The loop is left and res.json answers (index.js:186-198).
Respond(p, st, f, n) ==
  /\ pc' = [pc EXCEPT ![p] = "idle"]
  /\ mem' = [mem EXCEPT ![p] = st]
  /\ fetched' = [fetched EXCEPT ![p] = f]
  /\ resp' = [resp EXCEPT ![p] = OkResp(st, f)]
  /\ pending' = [pending EXCEPT ![p] = {}]
  /\ listed' = [listed EXCEPT ![p] = n]
  /\ UNCHANGED <<reqToken, newMessages>>

\* Mutant: while (fetched <= maxBatch).
LoopTestInclusive(f) == f <= maxBatch

\* while (fetched < maxBatch) (index.js:145)
LoopTest(f) == f < maxBatch

\* Mutant: the state is saved once, when the loop is left.
CommitPageSaveAtExit(p, st, f) ==
  IF st.nextPageToken # Null /\ f < maxBatch
  THEN CallList(p, st, f, listed[p]) /\ UNCHANGED disk
  ELSE Respond(p, st, f, listed[p]) /\ disk' = saveState(st)

\* Promise.all has resolved: saveState, `if (!nextPageToken) break`, and
\* the loop test (index.js:180-184, 145).
CommitPage(p, st, f) ==
  /\ disk' = saveState(st)
  /\ IF st.nextPageToken # Null /\ LoopTest(f)
     THEN CallList(p, st, f, listed[p])
     ELSE Respond(p, st, f, listed[p])

\* The catch block (index.js:199-202): nothing is saved.
Fail(p, cause) ==
  /\ pc' = [pc EXCEPT ![p] = "idle"]
  /\ resp' = [resp EXCEPT ![p] = ErrorResp(cause)]
  /\ pending' = [pending EXCEPT ![p] = {}]

\* ------------------------------------------------------------- actions
\* Mutant: let nextPageToken = null, every invocation lists from the start.
StartFromBeginning(p) ==
  /\ pc[p] = "idle"
  /\ IF disk.kind = "corrupt"
     THEN /\ Fail(p, "load")
          /\ listed' = [listed EXCEPT ![p] = 0]
          /\ UNCHANGED <<disk, mem, fetched, reqToken, newMessages, loaded>>
     ELSE /\ loaded' = [loaded EXCEPT ![p] = loadState]
          /\ CallList(p, [loadState EXCEPT !.nextPageToken = Null], 0, 0)
          /\ UNCHANGED disk
  /\ UNCHANGED <<mailbox, hdr>>

\* Mutant: a file that does not parse is taken as no file.
StartResetOnCorrupt(p) ==
  /\ pc[p] = "idle"
  /\ loaded' = [loaded EXCEPT ![p] = loadState]
  /\ IF LoopTest(0)
     THEN CallList(p, loadState, 0, 0)
     ELSE Respond(p, loadState, 0, 0)
  /\ UNCHANGED <<disk, mailbox, hdr>>

\* The request arrives: loadState, fetched = 0, the first loop test and the
\* first messages.list call (index.js:134-150).
Start(p) ==
  /\ pc[p] = "idle"
  /\ IF disk.kind = "corrupt"
     THEN /\ Fail(p, "load")
          /\ listed' = [listed EXCEPT ![p] = 0]
          /\ UNCHANGED <<disk, mem, fetched, reqToken, newMessages, loaded>>
     ELSE /\ loaded' = [loaded EXCEPT ![p] = loadState]
          /\ IF LoopTest(0)
             THEN CallList(p, loadState, 0, 0)
             ELSE Respond(p, loadState, 0, 0)
          /\ UNCHANGED disk
  /\ UNCHANGED <<mailbox, hdr>>

\* Mutant: nextPageToken is not taken from the response, the cursor never
\* advances.
ListOkStaleToken(p) ==
  /\ pc[p] = "list"
  /\ LET page == mailbox[reqToken[p] + 1]
         st == mem[p]
         new == FilterNew(page.messages, mem[p].messageIds)
         f == fetched[p] + Len(new)
     IN  IF new = <<>>
         THEN CommitPage(p, st, f)
         ELSE /\ pc' = [pc EXCEPT ![p] = "gets"]
              /\ mem' = [mem EXCEPT ![p] = st]
              /\ fetched' = [fetched EXCEPT ![p] = f]
              /\ newMessages' = [newMessages EXCEPT ![p] = new]
              /\ pending' = [pending EXCEPT ![p] = 1 .. Len(new)]
              /\ UNCHANGED <<disk, reqToken, listed, resp>>
  /\ UNCHANGED <<mailbox, hdr, loaded>>

\* messages.list answers (index.js:152-161): the page is filtered, fetched
\* grows, and one messages.get per new message is issued; with no new
\* message Promise.all([]) resolves at once.
ListOk(p) ==
  /\ pc[p] = "list"
  /\ LET page == mailbox[reqToken[p] + 1]
         st == [mem[p] EXCEPT !.nextPageToken = page.nextPageToken]
         new == FilterNew(page.messages, mem[p].messageIds)
         f == fetched[p] + Len(new)
     IN  IF new = <<>>
         THEN CommitPage(p, st, f)
         ELSE /\ pc' = [pc EXCEPT ![p] = "gets"]
              /\ mem' = [mem EXCEPT ![p] = st]
              /\ fetched' = [fetched EXCEPT ![p] = f]
              /\ newMessages' = [newMessages EXCEPT ![p] = new]
              /\ pending' = [pending EXCEPT ![p] = 1 .. Len(new)]
              /\ UNCHANGED <<disk, reqToken, listed, resp>>
  /\ UNCHANGED <<mailbox, hdr, loaded>>

\* messages.list rejects: the catch block answers 500.
ListFail(p) ==
  /\ pc[p] = "list"
  /\ Fail(p, "list")
  /\ UNCHANGED <<mailbox, hdr, disk, mem, fetched, reqToken, newMessages,
                 listed, loaded>>

\* Mutant: a message without a From header is counted under a sender, as
\* the `|| 'Unknown'` of /emails would.
OnMessageCountsMissing(st, id) ==
  [st EXCEPT !.senderCounts = Incr(@, IF hdr[id] # NoFrom THEN hdr[id] ELSE "a"),
             !.messageIds = Append(@, id)]

\* The callback's body after its await (index.js:169-176).
OnMessage(st, id) ==
  [st EXCEPT !.senderCounts = IF hdr[id] # NoFrom THEN Incr(@, hdr[id]) ELSE @,
             !.messageIds = Append(@, id)]

\* Mutant: saveState is called in the callback, after every message.
GetOkSavingEach(p, i) ==
  /\ pc[p] = "gets"
  /\ i \in pending[p]
  /\ LET st == OnMessage(mem[p], newMessages[p][i])
     IN  IF pending[p] = {i}
         THEN CommitPage(p, st, fetched[p])
         ELSE /\ mem' = [mem EXCEPT ![p] = st]
              /\ pending' = [pending EXCEPT ![p] = @ \ {i}]
              /\ disk' = saveState(st)
              /\ UNCHANGED <<pc, fetched, reqToken, newMessages, listed, resp>>
  /\ UNCHANGED <<mailbox, hdr, loaded>>

\* Mutant: each callback works on the senderCounts of the start of the page
\* and writes the whole object back, so the last callback to finish wins.
GetOkStaleCounts(p, i) ==
  /\ pc[p] = "gets"
  /\ i \in pending[p]
  /\ LET st == OnMessage([mem[p] EXCEPT !.senderCounts = loadState.senderCounts],
                         newMessages[p][i])
     IN  IF pending[p] = {i}
         THEN CommitPage(p, st, fetched[p])
         ELSE /\ mem' = [mem EXCEPT ![p] = st]
              /\ pending' = [pending EXCEPT ![p] = @ \ {i}]
              /\ UNCHANGED <<disk, pc, fetched, reqToken, newMessages, listed, resp>>
  /\ UNCHANGED <<mailbox, hdr, loaded>>

\* The messages.get of newMessages[i] resolves, in any order among the
\* pending ones; after the last one Promise.all resolves and the page is
\* committed.
GetOk(p, i) ==
  /\ pc[p] = "gets"
  /\ i \in pending[p]
  /\ LET st == OnMessage(mem[p], newMessages[p][i])
     IN  IF pending[p] = {i}
         THEN CommitPage(p, st, fetched[p])
         ELSE /\ mem' = [mem EXCEPT ![p] = st]
              /\ pending' = [pending EXCEPT ![p] = @ \ {i}]
              /\ UNCHANGED <<disk, pc, fetched, reqToken, newMessages, listed, resp>>
  /\ UNCHANGED <<mailbox, hdr, loaded>>

\* A messages.get rejects: Promise.all rejects and the catch block answers
\* 500.  The callbacks still pending only touch the arrays of this
\* invocation, which nothing reads any more.
GetFail(p, i) ==
  /\ pc[p] = "gets"
  /\ i \in pending[p]
  /\ Fail(p, "get")
  /\ UNCHANGED <<mailbox, hdr, disk, mem, fetched, reqToken, newMessages,
                 listed, loaded>>

\* The server process dies; the file stays as last written.
Crash ==
  /\ \E p \in Procs : pc[p] # "idle"
  /\ pc' = [p \in Procs |-> "idle"]
  /\ pending' = [p \in Procs |-> {}]
  /\ resp' = [p \in Procs |-> IF pc[p] # "idle" THEN NoResp ELSE resp[p]]
  /\ UNCHANGED <<mailbox, hdr, disk, mem, fetched, reqToken, newMessages,
                 listed, loaded>>

\* ------------------------------------------------------ specifications
\* One invocation at a time (the design's assumption, spec section 5).
Next ==
  \/ \E p \in {1} :
       \/ Start(p)
       \/ ListOk(p)
       \/ ListFail(p)
       \/ \E i \in pending[p] : GetOk(p, i)
       \/ \E i \in pending[p] : GetFail(p, i)
  \/ Crash

Spec == Init /\ [][Next]_vars

\* Express serves requests as they come: invocations overlap at their awaits.
NextConc ==
  \/ \E p \in Procs :
       \/ Start(p)
       \/ ListOk(p)
       \/ ListFail(p)
       \/ \E i \in pending[p] : GetOk(p, i)
       \/ \E i \in pending[p] : GetFail(p, i)
  \/ Crash

\* Overlap is explored over the mailboxes without re-listed ids and a fresh
\* store.
InitConc ==
  /\ Init
  /\ disk = NoFile
  /\ hdr = [id \in Ids |-> HeaderPattern[(id % 3) + 1]]
  /\ \A k \in 1 .. Len(mailbox) :
       /\ Len(mailbox[k].messages) > 0
       /\ \A j \in 1 .. Len(mailbox) :
            j # k => Range(mailbox[j].messages) \cap Range(mailbox[k].messages) = {}

SpecConc == InitConc /\ [][NextConc]_vars

\* A step in which the adapter or the process fails.
FailStep ==
  \/ ListFail(1)
  \/ \E i \in pending[1] : GetFail(1, i)
  \/ Crash

\* One invocation at a time, requests keep coming, the adapter answers every
\* call, and its failures (and crashes) eventually stop.
SpecFair ==
  /\ Init
  /\ [][Next]_vars
  /\ WF_vars(Start(1))
  /\ WF_vars(ListOk(1))
  /\ WF_vars(\E i \in pending[1] : GetOk(1, i))
  /\ <>[][~FailStep]_vars

\* ------------------------------------------------------------ properties
\* The persisted scan state: the record of the file, the empty state when
\* there is no file.
Persisted == IF disk.kind = "ok" THEN disk.state ELSE EmptyState

NoDup(seq) == \A i, j \in 1 .. Len(seq) : i # j => seq[i] # seq[j]

\* How many entries of ids are messages whose From header is s.
HeaderCount(ids, s) == Cardinality({i \in 1 .. Len(ids) : hdr[ids[i]] = s})

\* The counts are exactly the tally of the From headers of ids.
TallyOf(sc, ids) ==
  /\ \A s \in Senders : CountOf(sc, s) = HeaderCount(ids, s)
  /\ \A i \in 1 .. Len(sc) : sc[i].sender \in Senders

\* Every id the adapter lists, on any page.
ListedIds == UNION {Range(mailbox[k].messages) : k \in 1 .. Len(mailbox)}

\* The pages of the mailbox list each id at most once.
EachIdOnce ==
  \A k, j \in 1 .. Len(mailbox) :
    /\ NoDup(mailbox[k].messages)
    /\ j # k => Range(mailbox[j].messages) \cap Range(mailbox[k].messages) = {}

\* C1 (page atomicity): when a header fetch of a page has failed, whichever
\* one and after any of the others completed, the persisted state holds none
\* of that page's new ids, its counts are the tally of the ids it holds (no
\* increment from the page), and its cursor is the one the page was listed with.
C1_PageAtomicity ==
  \A p \in Procs :
    (resp[p].kind = "error" /\ resp[p].cause = "get") =>
      /\ Range(newMessages[p]) \cap Range(Persisted.messageIds) = {}
      /\ TallyOf(Persisted.senderCounts, Persisted.messageIds)
      /\ Persisted.nextPageToken = reqToken[p]

\* A fetch failed after another fetch of the same page had been counted in
\* memory, on a page listed with a cursor an earlier page had committed.
C1_Witness ==
  /\ resp[1].kind = "error" /\ resp[1].cause = "get"
  /\ Len(mem[1].messageIds) > Len(Persisted.messageIds)
  /\ reqToken[1] # Null

\* C2 (exactly-once counting): over a mailbox whose pages list each id at most
\* once, the persisted id list has no id twice and no sender's count exceeds
\* the number of distinct persisted messages with that sender.
C2_ExactlyOnce ==
  EachIdOnce =>
    /\ NoDup(Persisted.messageIds)
    /\ \A s \in Senders :
         CountOf(Persisted.senderCounts, s)
           <= Cardinality({id \in Range(Persisted.messageIds) : hdr[id] = s})

\* An invocation that resumed from an earlier one's progress (a capped, a
\* failed or a completed run) has answered after scanning pages again.
C2_Witness ==
  /\ EachIdOnce
  /\ resp[1].kind = "ok"
  /\ loaded[1].messageIds # <<>>
  /\ Len(Persisted.messageIds) > Len(loaded[1].messageIds)
  /\ listed[1] >= 2

\* C3 as stated: the sum of the counts equals the number of processed ids.
C3_SumEqualsProcessed ==
  TotalCount(Persisted.senderCounts) = Len(Persisted.messageIds)

\* C3 as amended: the sum of the counts equals the number of processed ids
\* whose message has a From header.
C3_SumEqualsProcessedWithFrom ==
  TotalCount(Persisted.senderCounts)
    = Cardinality({i \in 1 .. Len(Persisted.messageIds) :
                     hdr[Persisted.messageIds[i]] # NoFrom})

\* A persisted state with a counted message and one without a From header.
C3_Witness ==
  /\ TotalCount(Persisted.senderCounts) >= 2
  /\ \E i \in 1 .. Len(Persisted.messageIds) : hdr[Persisted.messageIds[i]] = NoFrom

\* C4 (monotonic growth): every write of the persisted state keeps every id
\* it held and lowers no sender's count.
C4_MonotonicGrowth ==
  [][/\ Range(Persisted.messageIds) \subseteq Range(Persisted'.messageIds)
     /\ \A s \in Senders :
          CountOf(Persisted.senderCounts, s) <= CountOf(Persisted'.senderCounts, s)]_vars

\* A resumed invocation committed a page on top of the loaded state and then
\* failed.
C4_Witness ==
  /\ resp[1].kind = "error"
  /\ loaded[1].messageIds # <<>>
  /\ Len(Persisted.messageIds) > Len(loaded[1].messageIds)

\* C5 (per-page durability): when an invocation issues a listing call after
\* a page it has committed, the file holds exactly its current state (ids,
\* counts and the cursor that page's listing returned, which is the cursor of
\* the new call); and at every moment the ids an invocation holds in memory
\* but the file lacks are new ids of the one page in flight.
C5_PerPageDurability ==
  \A p \in {1} :
    /\ (pc[p] = "list" /\ listed[p] >= 2) =>
         /\ disk = [kind |-> "ok", state |-> mem[p]]
         /\ mem[p].nextPageToken = reqToken[p]
    /\ Len(Persisted.messageIds) <= Len(mem[p].messageIds)
    /\ SubSeq(mem[p].messageIds, 1, Len(Persisted.messageIds)) = Persisted.messageIds
    /\ \A i \in Len(Persisted.messageIds) + 1 .. Len(mem[p].messageIds) :
         mem[p].messageIds[i] \in Range(newMessages[p])

\* A second page is in flight with one of its fetches counted in memory:
\* the file holds the first page, committed before the second was listed.
C5_Witness ==
  /\ pc[1] = "gets"
  /\ listed[1] >= 2
  /\ Len(Persisted.messageIds) > Len(loaded[1].messageIds)
  /\ Len(mem[1].messageIds) > Len(Persisted.messageIds)

\* C6 as stated, its last part: a page one invocation committed is never
\* lost from the file by another invocation's later write.
C6_NoLostPage ==
  [][\A id \in Range(Persisted.messageIds) : id \in Range(Persisted'.messageIds)]_vars

\* C7 as stated: the number of new messages an invocation processes never
\* exceeds the batch cap.
C7_FetchedWithinCap ==
  \A p \in Procs : fetched[p] <= maxBatch /\ resp[p].fetched <= maxBatch

CeilDiv(a, b) == (a + b - 1) \div b

\* C8 (loop stop rule): a listing call after a committed page is issued only
\* while fetched < maxBatch and the cursor is not null; a successful
\* invocation ends only with fetched >= maxBatch or a null cursor; so with
\* every page full of new ids and every cursor non-null it lists
\* ceil(maxBatch / maxResults) pages and answers done = false.
C8_LoopStopRule ==
  \A p \in {1} :
    /\ (pc[p] = "list" /\ listed[p] >= 2) =>
         (fetched[p] < maxBatch /\ mem[p].nextPageToken # Null)
    /\ (pc[p] = "gets" /\ listed[p] >= 2) =>
         fetched[p] - Len(newMessages[p]) < maxBatch
    /\ resp[p].kind = "ok" =>
         (resp[p].fetched >= maxBatch \/ mem[p].nextPageToken = Null)
    /\ (/\ resp[p].kind = "ok"
        /\ listed[p] < MaxListed
        /\ resp[p].fetched = listed[p] * maxResults
        /\ mem[p].nextPageToken # Null) =>
         (listed[p] = CeilDiv(maxBatch, maxResults) /\ ~resp[p].done)

\* Full pages with non-null cursors: the invocation stopped after
\* ceil(maxBatch / maxResults) pages with done = false.
C8_Witness ==
  /\ resp[1].kind = "ok"
  /\ ~resp[1].done
  /\ listed[1] = CeilDiv(maxBatch, maxResults)
  /\ resp[1].fetched = listed[1] * maxResults

\* C9 (completion flag): a successful invocation answers done = true exactly
\* when its last listing call returned a null next cursor, and then the
\* persisted cursor is null.
C9_CompletionFlag ==
  \A p \in {1} :
    resp[p].kind = "ok" =>
      /\ resp[p].done <=> (mailbox[reqToken[p] + 1].nextPageToken = Null)
      /\ resp[p].done => (disk.kind = "ok" /\ disk.state.nextPageToken = Null)

\* done = true after new messages were processed, with batch cap to spare.
C9_Witness ==
  /\ resp[1].kind = "ok"
  /\ resp[1].done
  /\ resp[1].fetched > 0
  /\ resp[1].fetched < maxBatch

\* C10 (idempotent dedup): an invocation that loaded a state whose id list
\* holds every id the adapter lists leaves the persisted ids and counts as
\* loaded and processes 0 new messages.
C10_IdempotentDedup ==
  \A p \in {1} :
    (listed[p] >= 1 /\ ListedIds \subseteq Range(loaded[p].messageIds)) =>
      /\ Persisted.messageIds = loaded[p].messageIds
      /\ Persisted.senderCounts = loaded[p].senderCounts
      /\ fetched[p] = 0
      /\ resp[p].fetched = 0

\* A completed scan was run again over the same pages and answered.
C10_Witness ==
  /\ resp[1].kind = "ok"
  /\ listed[1] >= 2
  /\ Len(loaded[1].messageIds) >= 2
  /\ ListedIds \subseteq Range(loaded[1].messageIds)

\* C11 as stated (bounded work): every invocation that has started ends,
\* with a response or an error.
C11_InvocationEnds == (pc[1] # "idle") ~> (pc[1] = "idle")

\* C12 (corrupt state): while the persisted record does not parse, every
\* step leaves the record as it is, is an invocation that answers an error,
\* and issues no adapter call.
C12_CorruptStateFails ==
  [][disk.kind = "corrupt" =>
       /\ disk' = disk
       /\ resp'[1].kind = "error"
       /\ pc'[1] = "idle"
       /\ listed'[1] = 0]_vars

\* An invocation found the record corrupt and answered the error.
C12_Witness ==
  /\ disk.kind = "corrupt"
  /\ resp[1].kind = "error"
  /\ resp[1].cause = "load"

\* The senders of ids in the order in which they are first met.
RECURSIVE FirstSeen(_)
FirstSeen(ids) ==
  IF ids = <<>> THEN <<>>
  ELSE LET before == FirstSeen(SubSeq(ids, 1, Len(ids) - 1))
           s == hdr[ids[Len(ids)]]
       IN  IF s = NoFrom \/ s \in Range(before) THEN before ELSE Append(before, s)

PositionIn(seq, x) == CHOOSE i \in 1 .. Len(seq) : seq[i] = x

\* r ranks the senders counted from ids: by count descending, equal counts
\* in first-inserted order, cut to the first TopN.
IsRanking(r, ids) ==
  LET fs == FirstSeen(ids)
      Before(s, t) ==
        \/ HeaderCount(ids, s) > HeaderCount(ids, t)
        \/ /\ HeaderCount(ids, s) = HeaderCount(ids, t)
           /\ PositionIn(fs, s) < PositionIn(fs, t)
  IN  /\ Len(r) = (IF Len(fs) < TopN THEN Len(fs) ELSE TopN)
      /\ \A i \in 1 .. Len(r) :
           /\ r[i].sender \in Range(fs)
           /\ r[i].count = HeaderCount(ids, r[i].sender)
           /\ \A j \in i + 1 .. Len(r) : Before(r[i].sender, r[j].sender)
           /\ \A t \in Range(fs) \ {r[j].sender : j \in 1 .. Len(r)} :
                Before(r[i].sender, t)

\* C13 as stated (ranking): topSenders of a response is the ranking of the
\* counted senders, for every sender string.
C13_Ranking ==
  resp[1].kind = "ok" => IsRanking(resp[1].topSenders, mem[1].messageIds)

\* C14 as stated (response status): a successful response has status
\* "complete" when done is true and "partial" when it is false.
C14_StatusFollowsDone ==
  resp[1].kind = "ok" =>
    resp[1].status = (IF resp[1].done THEN "complete" ELSE "partial")

\* C15 (missing From header): the callback of a message without a From
\* header appends its id and changes no entry of senderCounts; every new id,
\* with or without the header, counts in fetched; and no message whose id is
\* persisted is fetched again.
C15_MissingFrom ==
  /\ [](/\ resp[1].kind = "ok" =>
             resp[1].fetched = Len(mem[1].messageIds) - Len(loaded[1].messageIds)
        /\ pc[1] = "gets" =>
             \A i \in pending[1] : newMessages[1][i] \notin Range(Persisted.messageIds))
  /\ [][(/\ pc[1] = "gets"
         /\ Len(mem'[1].messageIds) = Len(mem[1].messageIds) + 1
         /\ hdr[mem'[1].messageIds[Len(mem'[1].messageIds)]] = NoFrom) =>
          /\ mem'[1].senderCounts = mem[1].senderCounts
          /\ SubSeq(mem'[1].messageIds, 1, Len(mem[1].messageIds)) = mem[1].messageIds]_vars

\* A later invocation listed again a page with a processed message that has
\* no From header, fetched nothing, and answered.
C15_Witness ==
  /\ resp[1].kind = "ok"
  /\ resp[1].fetched = 0
  /\ \E id \in Range(loaded[1].messageIds) :
       /\ hdr[id] = NoFrom
       /\ id \in Range(mailbox[reqToken[1] + 1].messages)
  /\ TotalCount(Persisted.senderCounts) < Len(Persisted.messageIds)

\* C16 (resume from the committed cursor): the first listing call of an
\* invocation uses the persisted cursor; the invocation after one that failed
\* on a header fetch lists the same page again, and the one after a capped
\* invocation lists the page that follows the last committed page.
C16_ResumeFromCursor ==
  /\ []((pc[1] = "list" /\ listed[1] = 1) => reqToken[1] = Persisted.nextPageToken)
  /\ [][(pc[1] = "idle" /\ pc'[1] = "list") =>
          /\ (resp[1].kind = "error" /\ resp[1].cause = "get") =>
               reqToken'[1] = reqToken[1]
          /\ (resp[1].kind = "ok" /\ ~resp[1].done) =>
               reqToken'[1] = mailbox[reqToken[1] + 1].nextPageToken]_vars

\* An invocation has resumed at a cursor inside the mailbox.
C16_Witness ==
  /\ pc[1] = "list"
  /\ listed[1] = 1
  /\ reqToken[1] # Null
  /\ loaded[1].messageIds # <<>>

RECURSIVE InOrderPage(_, _)
InOrderPage(st, ids) ==
  IF ids = <<>> THEN st ELSE InOrderPage(OnMessage(st, Head(ids)), Tail(ids))

RECURSIVE InOrderRun(_, _, _)
InOrderRun(st, f, fuel) ==
  LET page == mailbox[st.nextPageToken + 1]
      new == FilterNew(page.messages, st.messageIds)
      st1 == InOrderPage([st EXCEPT !.nextPageToken = page.nextPageToken], new)
      f1 == f + Len(new)
  IN  IF st1.nextPageToken # Null /\ LoopTest(f1) /\ fuel > 0
      THEN InOrderRun(st1, f1, fuel - 1)
      ELSE st1

InOrderResult(st) == InOrderRun(st, 0, MaxPages + MaxListed)

\* C18 (order independence of the tally): after a successful invocation the
\* persisted ids, as a set, and the persisted counts, as a mapping, are those
\* of the in-order run from the same loaded state, whatever the order in
\* which the fetches of each page completed.
C18_TallyOrderIndependent ==
  resp[1].kind = "ok" =>
    LET r == InOrderResult(loaded[1])
    IN  /\ Range(Persisted.messageIds) = Range(r.messageIds)
        /\ Len(Persisted.messageIds) = Len(r.messageIds)
        /\ \A s \in Senders :
             CountOf(Persisted.senderCounts, s) = CountOf(r.senderCounts, s)
        /\ Persisted.nextPageToken = r.nextPageToken

\* A successful invocation in which the second message of a page was fetched
\* before the first, both from the same sender.
C18_Witness ==
  /\ resp[1].kind = "ok"
  /\ \E i, j \in 1 .. Len(mem[1].messageIds) :
       /\ i < j
       /\ mem[1].messageIds[i] > mem[1].messageIds[j]
       /\ hdr[mem[1].messageIds[i]] = hdr[mem[1].messageIds[j]]
       /\ hdr[mem[1].messageIds[i]] # NoFrom

\* C19 as stated (order independence of the result): the topSenders of a
\* successful invocation is that of the in-order run from the same loaded
\* state, whatever the order in which the fetches of each page completed.
C19_TopSendersOrderIndependent ==
  resp[1].kind = "ok" =>
    resp[1].topSenders = sortedSenders(InOrderResult(loaded[1]).senderCounts)

====
